---------------------------- MODULE Spec2Model ----------------------------
(***************************************************************************)
(* The incremental synchronization controller of arxiv_tracker/cli.py:     *)
(* the `run` command, step by step.  One process slot p holds the locals   *)
(* of one invocation of run(); the state file, the snapshot flag files and *)
(* the mailbox are shared by all invocations.                              *)
(***************************************************************************)
EXTENDS Integers, Sequences, FiniteSets, TLC

(* ------------------------------ bounds -------------------------------- *)

\* Process slots.  Spec runs invocations one after the other in slot 1.
Procs == {1, 2}

\* Largest max_results a configuration asks for.
MaxWant == 3

\* The remote feed holds at most this many entries in the study of the
\* paginator (more than one page of page_size = 25) ...
MaxFeed == 26

\* ... and this many in the runs of the whole pipeline.
SmallFeed == 2

\* The feed of the study of the page ceiling: more than max_pages pages of
\* page_size = 200.
LongFeed == 4001

\* Largest max_results whose page size is computed.
MaxGeoWant == 260

\* Entries published at the head of a listed feed while a run reads it.
MaxShift == 1

\* Identifiers of feed entries.
Ids == {"a1", "a2"}

(* ------------------------- program constants -------------------------- *)

PageMin == 25
PageMax == 200
max_pages == 20
DefaultWant == 50
state_path == ".state/seen.json"

(* --------------------------- time and items --------------------------- *)

\* None of Python, for a datetime that is missing.
None == -1

\* datetime.now(timezone.utc), in days.
Clock == {3}

\* freshness.since_days of the configuration.
SinceDays == {0, 2}

\* _parse_dt taking an unparsable text for the epoch.
ParseDtEpoch(s) ==
    CASE s = ""        -> None
      [] s = "d0"      -> 0
      [] s = "d1"      -> 1
      [] s = "d2"      -> 2
      [] OTHER         -> 0

\* _parse_dt: None for an empty or unparsable text, else the instant.
ParseDt(s) ==
    CASE s = ""        -> None
      [] s = "d0"      -> 0
      [] s = "d1"      -> 1
      [] s = "d2"      -> 2
      [] OTHER         -> None

\* t = _parse_dt(updated) or _parse_dt(published)
EffTime(it) ==
    LET u == ParseDt(it.updated)
    IN  IF u # None THEN u ELSE ParseDt(it.published)

\* cutoff = now - since_days if since_days > 0 else None
Cutoff(now, since_days) ==
    IF since_days > 0 THEN now - since_days ELSE None

\* want_new = int(cfg.max_results or 50)
WantNew(max_results) ==
    IF max_results = 0 THEN DefaultWant ELSE max_results

Min(a, b) == IF a < b THEN a ELSE b
Max(a, b) == IF a > b THEN a ELSE b

\* Line 212 without the upper limit.
PageSizeUncapped(want) == Max(PageMin, want)

\* page_size = min(200, max(25, want_new))
PageSize(want) == Min(PageMax, Max(PageMin, want))

Item(id, u, pb) == [id |-> id, updated |-> u, published |-> pb]

\* The entries the parser may hand over in the study of the paginator: every
\* kind of timestamp pair, a second identifier, an entry without an id ("").
FeedItems ==
    { Item("a1", tp[1], tp[2]) :
        tp \in { <<"d2", "">>, <<"d1", "">>, <<"d0", "">>, <<"garbage", "d0">>,
                 <<"", "d2">>, <<"garbage", "">>, <<"d0", "d2">> } }
    \cup { Item("a2", "d2", ""), Item("a2", "d0", ""), Item("", "d2", "") }

\* The entries of the feed in the runs of the whole pipeline.
SmallCatalog == { Item("a1", "d2", ""), Item("a2", "d1", "") }

\* Identifiers of a sequence of items (entries without id have none).
IdsOf(its) == { its[k].id : k \in 1..Len(its) } \ {""}

\* All sequences over S of length 0..n.
SeqUpTo(S, n) == UNION { [1..k -> S] : k \in 0..n }

(* --------------------------- the remote feed -------------------------- *)

\* What fetch_arxiv_feed and parse_feed hand over is described in one of two
\* ways.  Without a listing, any entry of a catalog may stand at any offset
\* and a page may have any length the feed allows.  With a listing, the feed
\* is a definite sequence: its entry of rank r has the identifier ToString(r),
\* carries a timestamp before the window when r is in `stale` and no
\* readable timestamp when r is in `untimed`; `shift` entries have been
\* published since the listing was made, each at the head of the feed, so
\* that offset k (from 0) holds the entry of rank k + 1 - shift.
Listing(stale, untimed) ==
    [fixed |-> TRUE, shift |-> 0, stale |-> stale, untimed |-> untimed]

NoListing == [fixed |-> FALSE, shift |-> 0, stale |-> {}, untimed |-> {}]

\* The entry of rank r of a listing.
Entry(l, r) ==
    Item(ToString(r),
         IF r \in l.stale THEN "d0" ELSE IF r \in l.untimed THEN "garbage"
                                                            ELSE "d2",
         "")

\* The entries parse_feed may give at offset k of the feed.
Served(e, k) ==
    IF e.listing.fixed THEN { Entry(e.listing, k + 1 - e.listing.shift) }
                       ELSE e.catalog

\* The numbers of entries parse_feed may give for the request
\* (start = st, max_results = n): at most n, and no more than the feed holds
\* from offset st on.
LongestPage(e, st, n) == Max(0, Min(n, e.feed_size - st))

PageLens(e, st, n) ==
    IF e.listing.fixed THEN { LongestPage(e, st, n) }
                       ELSE 0..LongestPage(e, st, n)

\* The pages parse_feed may give for that request when they are taken whole.
FeedPages(e, st, n) ==
    IF e.listing.fixed
    THEN { [k \in 1..LongestPage(e, st, n) |->
                Entry(e.listing, st + k - e.listing.shift)] }
    ELSE SeqUpTo(e.catalog, LongestPage(e, st, n))

(* ----------------------------- state file ----------------------------- *)

\* The document at state_path: its shape and the identifiers it holds.
\*   "absent"  no file;          "ids"   {"ids": [...]};
\*   "list"    a bare list;      "dict"  {id: timestamp};
\*   "scalar"  valid JSON of another shape;  "corrupt"  not JSON.

File(shape, ids) == [shape |-> shape, ids |-> ids]

\* The documents a first invocation may find.
FirstFiles ==
    { File("absent", {}), File("corrupt", {}), File("scalar", {}),
      File("ids", {"a1"}), File("list", {"a1"}), File("dict", {"a1", "a2"}) }

\* Whether open()/json.load() of the document raises on account of its
\* content alone.
Undecodable(f) == f.shape = "corrupt"

\* Lines 198-204 knowing the {"ids": [...]} shape only.
DecodeIdsOnly(f) == IF f.shape = "ids" THEN f.ids ELSE {}

\* Lines 198-204: the set the three accepted shapes decode to.
Decode(f) ==
    CASE f.shape = "ids"  -> f.ids
      [] f.shape = "dict" -> f.ids
      [] f.shape = "list" -> f.ids
      [] OTHER            -> {}

\* Lines 193-206 never taking anything from the file.
LoadedSeenNothing(unique_only, f, raises) == {}

\* Lines 193-206: seen_ids after the load.  `raises` is whether reading the
\* file raised (caught at line 205).
LoadedSeen(unique_only, f, raises) ==
    IF unique_only /\ state_path # "" /\ f.shape # "absent" /\ ~raises
    THEN Decode(f)
    ELSE {}

(* ------------------------------ stamps -------------------------------- *)

\* Names save_json gives the JSON artifact.
JsonNames == {"arxiv_20240101_000000.json", "latest.json", "digest.json"}

\* time.strftime("%Y%m%d")
Days == {"20240101", "20240102"}

\* re.search(r"arxiv_(\d{8}_\d{6})", name): the token, "" when no match.
StampToken(name) ==
    CASE name = "arxiv_20240101_000000.json" -> "20240101_000000"
      [] OTHER                               -> ""

\* _extract_stamp_from_path
ExtractStamp(name, today) ==
    IF StampToken(name) # "" THEN StampToken(name) ELSE today

\* _fallback_stamp (lines 401-403): the base file name without extension.
\* Line 408 would call it, were line 406 to raise.
FallbackStamp(name) ==
    CASE name = "arxiv_20240101_000000.json" -> "arxiv_20240101_000000"
      [] name = "latest.json"                -> "latest"
      [] name = "digest.json"                -> "digest"
      [] OTHER                               -> name

Stamps == { ExtractStamp(n, d) : n \in JsonNames, d \in Days }

(* ----------------------------- variables ------------------------------ *)

VARIABLES
    env,            \* the surroundings of the behaviour: the entries the
                    \* remote feed may serve (catalog) and how many it holds
                    \* (feed_size), the names save_json may give (names),
                    \* the dates the wall clock may show (days)
    state_file,     \* the document at state_path
    flag_files,     \* stamps s with {out_dir}/email_sent_{s}.flag present
    mailbox,        \* stamp -> number of notifications send_email delivered
    SENT_EMAIL,     \* p -> the module global _SENT_EMAIL of p's process
    pc,             \* p -> where p is in run()
    cfg,            \* p -> freshness configuration and max_results of the run
    at_start,       \* p -> the shared state when the run started
    wrote,          \* p -> the run has written state_path
    seen_ids,       \* p -> seen_ids
    load_error,     \* p -> the load of seen_ids went through line 205
    cutoff,         \* p -> cutoff
    start,          \* p -> start
    page_no,        \* p -> _page
    idx,            \* p -> items of the current page scanned so far
    collected,      \* p -> collected
    reached_cutoff, \* p -> reached_cutoff
    requests,       \* p -> the fetch_arxiv_feed calls made, in order
    fallback_page,  \* p -> what the fallback fetch parsed to
    items,          \* p -> items
    i,              \* p -> index of the per-item loops
    json_path,      \* p -> name of the saved JSON artifact
    site_generated, \* p -> site_generated
    stamp,          \* p -> stamp
    email_outcome,  \* p -> how step 7 ended
    email_sent,     \* p -> email_sent
    error           \* p -> the exception caught at line 505, "" if none

shared == <<env, state_file, flag_files, mailbox>>
pagVars == <<seen_ids, load_error, cutoff, start, page_no, idx, collected, reached_cutoff,
             requests, fallback_page>>
downVars == <<items, i, json_path, site_generated, stamp, email_outcome,
              email_sent>>
vars == <<shared, SENT_EMAIL, pc, cfg, at_start, wrote, pagVars, downVars, error>>

Set(f, p, v) == [f EXCEPT ![p] = v]

Want(p) == WantNew(cfg[p].max_results)
PSize(p) == PageSize(Want(p))

Configs ==
    [unique_only : BOOLEAN, since_days : SinceDays,
     max_results : 1..MaxWant, fallback_when_empty : BOOLEAN]

NoConfig ==
    [unique_only |-> FALSE, since_days |-> 0, max_results |-> 1,
     fallback_when_empty |-> FALSE]

InitWith(e, files) ==
    /\ env = e
    /\ state_file \in files
    /\ flag_files = {}
    /\ mailbox = [s \in Stamps |-> 0]
    /\ SENT_EMAIL = [p \in Procs |-> FALSE]
    /\ pc = [p \in Procs |-> "idle"]
    /\ cfg = [p \in Procs |-> NoConfig]
    /\ at_start = [p \in Procs |-> [state_file |-> state_file, flag_files |-> {},
                                    mailbox |-> [s \in Stamps |-> 0],
                                    SENT_EMAIL |-> FALSE]]
    /\ wrote = [p \in Procs |-> FALSE]
    /\ seen_ids = [p \in Procs |-> {}]
    /\ load_error = [p \in Procs |-> FALSE]
    /\ cutoff = [p \in Procs |-> None]
    /\ start = [p \in Procs |-> 0]
    /\ page_no = [p \in Procs |-> 0]
    /\ idx = [p \in Procs |-> 0]
    /\ collected = [p \in Procs |-> <<>>]
    /\ reached_cutoff = [p \in Procs |-> FALSE]
    /\ requests = [p \in Procs |-> <<>>]
    /\ fallback_page = [p \in Procs |-> <<>>]
    /\ items = [p \in Procs |-> <<>>]
    /\ i = [p \in Procs |-> 0]
    /\ json_path = [p \in Procs |-> ""]
    /\ site_generated = [p \in Procs |-> FALSE]
    /\ stamp = [p \in Procs |-> ""]
    /\ email_outcome = [p \in Procs |-> ""]
    /\ email_sent = [p \in Procs |-> FALSE]
    /\ error = [p \in Procs |-> ""]

Env(cat, size, names, days) ==
    [catalog |-> cat, feed_size |-> size, names |-> names, days |-> days,
     listing |-> NoListing]

\* The surroundings with the feed given by a listing of `size` entries.
ListedEnv(l, size, names, days) ==
    [catalog |-> {}, feed_size |-> size, names |-> names, days |-> days,
     listing |-> l]

Init ==
    InitWith(Env(SmallCatalog, SmallFeed,
                 {"arxiv_20240101_000000.json", "latest.json"}, {"20240101"}),
             FirstFiles)

(* ------------------------ start of an invocation ---------------------- *)

\* run() is entered in slot p with configuration c.  `fresh`: the invocation
\* is a new process (the module is imported anew, line 14); otherwise run()
\* is called again in the process that made p's previous invocation.
StartRun(p, fresh, c) ==
    /\ pc[p] \in {"idle", "done", "failed"}
    /\ fresh \/ pc[p] # "idle"
    /\ SENT_EMAIL' = Set(SENT_EMAIL, p, IF fresh THEN FALSE ELSE SENT_EMAIL[p])
    /\ cfg' = Set(cfg, p, c)
    /\ at_start' = Set(at_start, p,
            [state_file |-> state_file, flag_files |-> flag_files,
             mailbox |-> mailbox, SENT_EMAIL |-> SENT_EMAIL'[p]])
    /\ wrote' = Set(wrote, p, FALSE)
    /\ pc' = Set(pc, p, "load")
    /\ seen_ids' = Set(seen_ids, p, {})
    /\ load_error' = Set(load_error, p, FALSE)
    /\ cutoff' = Set(cutoff, p, None)
    /\ start' = Set(start, p, 0)
    /\ page_no' = Set(page_no, p, 0)
    /\ idx' = Set(idx, p, 0)
    /\ collected' = Set(collected, p, <<>>)
    /\ reached_cutoff' = Set(reached_cutoff, p, FALSE)
    /\ requests' = Set(requests, p, <<>>)
    /\ fallback_page' = Set(fallback_page, p, <<>>)
    /\ items' = Set(items, p, <<>>)
    /\ i' = Set(i, p, 0)
    /\ json_path' = Set(json_path, p, "")
    /\ site_generated' = Set(site_generated, p, FALSE)
    /\ stamp' = Set(stamp, p, "")
    /\ email_outcome' = Set(email_outcome, p, "")
    /\ email_sent' = Set(email_sent, p, FALSE)
    /\ error' = Set(error, p, "")
    /\ UNCHANGED <<env, state_file, flag_files, mailbox>>

\* Lines 505-508: an exception reached the top of run(); exit status 1.
Abort(p, e) ==
    /\ pc' = Set(pc, p, "failed")
    /\ error' = Set(error, p, e)

\* The exit status of the invocation: 1 from sys.exit(1) at line 508, 0 when
\* run() returned, None while it runs.
ExitStatus(p) ==
    CASE pc[p] = "failed" -> 1
      [] pc[p] = "done"   -> 0
      [] OTHER            -> None

(* ---------------------------- Seen-Set load --------------------------- *)

\* Lines 192-215: load seen_ids, compute the window, reset the accumulator.
LoadSeen(p) ==
    /\ pc[p] = "load"
    /\ \E raises \in BOOLEAN, now \in Clock :
        /\ raises => cfg[p].unique_only /\ state_file.shape # "absent"
        /\ cfg[p].unique_only /\ Undecodable(state_file) => raises
        /\ seen_ids' = Set(seen_ids, p,
                           LoadedSeen(cfg[p].unique_only, state_file, raises))
        /\ load_error' = Set(load_error, p, raises)
        /\ cutoff' = Set(cutoff, p, Cutoff(now, cfg[p].since_days))
    /\ pc' = Set(pc, p, "fetch")
    /\ UNCHANGED <<shared, SENT_EMAIL, cfg, at_start, wrote, start, page_no, idx,
                   collected, reached_cutoff, requests, fallback_page,
                   downVars, error>>

(* -------------------------- Windowed Paginator ------------------------ *)

\* Line 229 with the comparison a day off.
StaleDayOff(cut, t) == cut # None /\ t # None /\ t < cut - 1

\* Line 229: the item predates the cutoff.
Stale(cut, t) == cut # None /\ t # None /\ t < cut

\* Line 235 without the membership test.
AlreadySeenNever(unique_only, aid, seen) == FALSE

\* Line 235: the item is skipped as already seen.
AlreadySeen(unique_only, aid, seen) == unique_only /\ aid # "" /\ aid \in seen

\* Lines 239 and 242 with > for >=.
QuotaReachedLate(coll, want) == Len(coll) > want

\* Lines 239 and 242: the accumulator holds want_new items.
QuotaReached(coll, want) == Len(coll) >= want

Request(st, mx, ln) == [start |-> st, max_results |-> mx, line |-> ln]

\* Lines 218-221: the call of fetch_arxiv_feed of the pagination loop.
PageRequest(p) == Request(start[p], PSize(p), 218)

\* Lines 218-222 raise, and the failure is taken for an empty page.
FetchFailsSwallowed(p) ==
    /\ pc[p] = "fetch"
    /\ requests' = Set(requests, p, Append(requests[p], PageRequest(p)))
    /\ pc' = Set(pc, p, "fallback")
    /\ error' = Set(error, p, "feed")
    /\ UNCHANGED <<shared, SENT_EMAIL, cfg, at_start, wrote, seen_ids, load_error,
                   cutoff, start,
                   page_no, idx, collected, reached_cutoff, fallback_page,
                   downVars>>

\* Lines 218-222 raise: the exception leaves the loop and run().
FetchFails(p) ==
    /\ pc[p] = "fetch"
    /\ requests' = Set(requests, p, Append(requests[p], PageRequest(p)))
    /\ Abort(p, "feed")
    /\ UNCHANGED <<shared, SENT_EMAIL, cfg, at_start, wrote, seen_ids, load_error,
                   cutoff, start,
                   page_no, idx, collected, reached_cutoff, fallback_page,
                   downVars>>

\* Lines 218-224: the page parses to nothing; break.
FetchEmpty(p) ==
    /\ pc[p] = "fetch"
    /\ 0 \in PageLens(env, start[p], PSize(p))
    /\ requests' = Set(requests, p, Append(requests[p], PageRequest(p)))
    /\ pc' = Set(pc, p, "fallback")
    /\ UNCHANGED <<shared, SENT_EMAIL, cfg, at_start, wrote, seen_ids, load_error,
                   cutoff, start,
                   page_no, idx, collected, reached_cutoff, fallback_page,
                   downVars, error>>

\* Lines 218-226: the page holds items; the scan of the page begins.
FetchPage(p) ==
    /\ pc[p] = "fetch"
    /\ LongestPage(env, start[p], PSize(p)) >= 1
    /\ requests' = Set(requests, p, Append(requests[p], PageRequest(p)))
    /\ idx' = Set(idx, p, 0)
    /\ pc' = Set(pc, p, "scan")
    /\ UNCHANGED <<shared, SENT_EMAIL, cfg, at_start, wrote, seen_ids, load_error,
                   cutoff, start,
                   page_no, collected, reached_cutoff, fallback_page,
                   downVars, error>>

\* Lines 242-249 in a loop without the ceiling of range(max_pages).
AfterPageNoCeiling(p, coll, rc, n) ==
    /\ collected' = Set(collected, p, coll)
    /\ reached_cutoff' = Set(reached_cutoff, p, rc)
    /\ idx' = Set(idx, p, 0)
    /\ IF QuotaReached(coll, Want(p)) \/ rc \/ n < PSize(p)
         THEN /\ pc' = Set(pc, p, "fallback")
              /\ UNCHANGED <<start, page_no>>
         ELSE /\ start' = Set(start, p, start[p] + PSize(p))
              /\ page_no' = Set(page_no, p, page_no[p] + 1)
              /\ pc' = Set(pc, p, "fetch")

\* Lines 242-249 with a next page that starts one entry too far.
AfterPageGap(p, coll, rc, n) ==
    /\ collected' = Set(collected, p, coll)
    /\ reached_cutoff' = Set(reached_cutoff, p, rc)
    /\ idx' = Set(idx, p, 0)
    /\ IF QuotaReached(coll, Want(p)) \/ rc \/ n < PSize(p)
         THEN /\ pc' = Set(pc, p, "fallback")
              /\ UNCHANGED <<start, page_no>>
         ELSE /\ start' = Set(start, p, start[p] + PSize(p) + 1)
              /\ page_no' = Set(page_no, p, page_no[p] + 1)
              /\ pc' = Set(pc, p, IF page_no[p] + 1 < max_pages
                                   THEN "fetch" ELSE "fallback")

\* Lines 242-249, after the scan of a page of n items left the accumulator
\* coll and the flag rc: leave the loop, or go to the next page.  The
\* position in the page goes with the page.
AfterPage(p, coll, rc, n) ==
    /\ collected' = Set(collected, p, coll)
    /\ reached_cutoff' = Set(reached_cutoff, p, rc)
    /\ idx' = Set(idx, p, 0)
    /\ IF QuotaReached(coll, Want(p)) \/ rc
         THEN /\ pc' = Set(pc, p, "fallback")
              /\ UNCHANGED <<start, page_no>>
         ELSE IF n < PSize(p)
         THEN /\ pc' = Set(pc, p, "fallback")
              /\ UNCHANGED <<start, page_no>>
         ELSE /\ start' = Set(start, p, start[p] + PSize(p))
              /\ page_no' = Set(page_no, p, page_no[p] + 1)
              /\ pc' = Set(pc, p, IF page_no[p] + 1 < max_pages
                                   THEN "fetch" ELSE "fallback")

\* Lines 226-240 with `continue` for the `break` of line 231.
ScanStepSkipStale(p, it) ==
    IF \/ Stale(cutoff[p], EffTime(it))
       \/ AlreadySeen(cfg[p].unique_only, it.id, seen_ids[p])
    THEN /\ idx' = Set(idx, p, idx[p] + 1)
         /\ UNCHANGED <<collected, reached_cutoff, start, page_no, pc>>
    ELSE IF QuotaReached(Append(collected[p], it), Want(p))
    THEN AfterPage(p, Append(collected[p], it), reached_cutoff[p], idx[p] + 1)
    ELSE /\ idx' = Set(idx, p, idx[p] + 1)
         /\ collected' = Set(collected, p, Append(collected[p], it))
         /\ UNCHANGED <<reached_cutoff, start, page_no, pc>>

\* Lines 226-240 for one item `it` of the page.
ScanStep(p, it) ==
    IF Stale(cutoff[p], EffTime(it))
    THEN AfterPage(p, collected[p], TRUE, idx[p] + 1)
    ELSE IF AlreadySeen(cfg[p].unique_only, it.id, seen_ids[p])
    THEN /\ idx' = Set(idx, p, idx[p] + 1)
         /\ UNCHANGED <<collected, reached_cutoff, start, page_no, pc>>
    ELSE IF QuotaReached(Append(collected[p], it), Want(p))
    THEN AfterPage(p, Append(collected[p], it), reached_cutoff[p], idx[p] + 1)
    ELSE /\ idx' = Set(idx, p, idx[p] + 1)
         /\ collected' = Set(collected, p, Append(collected[p], it))
         /\ UNCHANGED <<reached_cutoff, start, page_no, pc>>

\* The loop of line 226 takes the next item of the page.  The page is read
\* as the loop reads it: it has a next item while fewer than page_size were
\* read and the feed has an entry at that offset.
ScanItem(p) ==
    /\ pc[p] = "scan"
    /\ idx[p] < LongestPage(env, start[p], PSize(p))
    /\ \E it \in Served(env, start[p] + idx[p]) : ScanStep(p, it)
    /\ UNCHANGED <<shared, SENT_EMAIL, cfg, at_start, wrote, seen_ids, load_error,
                   cutoff,
                   requests, fallback_page, downVars, error>>

\* The loop of line 226 ends: the page had idx items.
PageEnd(p) ==
    /\ pc[p] = "scan"
    /\ idx[p] >= 1
    /\ idx[p] \in PageLens(env, start[p], PSize(p))
    /\ AfterPage(p, collected[p], reached_cutoff[p], idx[p])
    /\ UNCHANGED <<shared, SENT_EMAIL, cfg, at_start, wrote, seen_ids, load_error,
                   cutoff,
                   requests, fallback_page, downVars, error>>

(* --------------------------- Fallback Fetcher ------------------------- *)

\* Line 252 without the fallback_when_empty test.
FallbackNeededAlways(coll, fallback_when_empty) == coll = <<>>

\* Line 252
FallbackNeeded(coll, fallback_when_empty) == coll = <<>> /\ fallback_when_empty

\* Lines 253-256
FallbackRequest(p) == Request(0, Want(p), 253)

\* Lines 252-259: the fallback fetch returns `page`.
FallbackFetch(p) ==
    /\ pc[p] = "fallback"
    /\ FallbackNeeded(collected[p], cfg[p].fallback_when_empty)
    /\ requests' = Set(requests, p, Append(requests[p], FallbackRequest(p)))
    /\ \E page \in FeedPages(env, 0, Want(p)) :
        /\ fallback_page' = Set(fallback_page, p, page)
        /\ collected' = Set(collected, p, page)
        /\ items' = Set(items, p, page)
    /\ i' = Set(i, p, 0)
    /\ pc' = Set(pc, p, "scrape")
    /\ UNCHANGED <<shared, SENT_EMAIL, cfg, at_start, wrote, seen_ids, load_error,
                   cutoff, start,
                   page_no, idx, reached_cutoff, json_path, site_generated,
                   stamp, email_outcome, email_sent, error>>

\* Lines 253-257 raise.
FallbackFails(p) ==
    /\ pc[p] = "fallback"
    /\ FallbackNeeded(collected[p], cfg[p].fallback_when_empty)
    /\ requests' = Set(requests, p, Append(requests[p], FallbackRequest(p)))
    /\ Abort(p, "feed")
    /\ UNCHANGED <<shared, SENT_EMAIL, cfg, at_start, wrote, seen_ids, load_error,
                   cutoff, start,
                   page_no, idx, collected, reached_cutoff, fallback_page,
                   downVars>>

\* Lines 252, 259: no fallback; items = collected.
NoFallback(p) ==
    /\ pc[p] = "fallback"
    /\ ~FallbackNeeded(collected[p], cfg[p].fallback_when_empty)
    /\ items' = Set(items, p, collected[p])
    /\ i' = Set(i, p, 0)
    /\ pc' = Set(pc, p, "scrape")
    /\ UNCHANGED <<shared, SENT_EMAIL, cfg, at_start, wrote, pagVars, json_path,
                   site_generated, stamp, email_outcome, email_sent, error>>

Paginate(p) ==
    \/ LoadSeen(p)
    \/ FetchFails(p)
    \/ FetchEmpty(p)
    \/ FetchPage(p)
    \/ ScanItem(p)
    \/ PageEnd(p)
    \/ FallbackFetch(p)
    \/ FallbackFails(p)
    \/ NoFallback(p)

(* A single invocation up to the item set, over every kind of feed entry. *)
InitPag ==
    InitWith(Env(FeedItems, MaxFeed, {"latest.json"}, {"20240101"}),
             { File("ids", ids) : ids \in SUBSET Ids })

StartPag == pc[1] = "idle" /\ \E c \in Configs : StartRun(1, TRUE, c)

NextPag == StartPag \/ Paginate(1)

SpecPag == InitPag /\ [][NextPag]_vars

(* A single invocation up to the item set, over a feed long enough for the
   loop to use all its pages.  The feed serves one fresh entry and one
   stale entry; with a quota above MaxWant the cutoff is set and there is no
   fallback, so that the accumulator holds copies of one entry only. *)
LongCatalog == { Item("a1", "d2", ""), Item("a2", "d0", "") }

\* max_results of the runs over the long feed: page sizes 25, 30 and 200.
LongWants == {MaxWant, 30, 250}

InitLong ==
    InitWith(Env(LongCatalog, LongFeed, {"latest.json"}, {"20240101"}),
             { File("ids", {"a1"}), File("ids", {"a1", "a2"}) })

StartLong ==
    /\ pc[1] = "idle"
    /\ \E c \in [unique_only : BOOLEAN, since_days : SinceDays,
                  max_results : LongWants, fallback_when_empty : BOOLEAN] :
        /\ c.max_results > MaxWant =>
                c.since_days > 0 /\ ~c.fallback_when_empty
        /\ StartRun(1, TRUE, c)

NextLong == StartLong \/ Paginate(1)

SpecLong == InitLong /\ [][NextLong]_vars

(* A single invocation up to the item set, over a feed given by a listing,
   which may gain entries at its head between two page fetches. *)

\* Identifiers of the entries of ranks a..b.
RankIds(a, b) == { ToString(r) : r \in a..b }

\* The listed feeds and the state file found with each: an empty feed; a
\* feed of one short page; a feed of exactly one page; feeds of two pages,
\* the second one reached because most of the first is already seen; a feed
\* one entry longer than max_pages pages, all pages seen.
ListedFeeds ==
    { [listing |-> Listing({}, {}), size |-> 0, seen |-> {}],
      [listing |-> Listing({4}, {2}), size |-> 4, seen |-> {}],
      [listing |-> Listing({}, {}), size |-> PageMin,
       seen |-> RankIds(1, PageMin - 1)],
      [listing |-> Listing({4}, {2}), size |-> 4, seen |-> {"1", "3"}],
      [listing |-> Listing({}, {}), size |-> PageMin + 2,
       seen |-> RankIds(1, PageMin - 1)],
      [listing |-> Listing({PageMin + 1}, {PageMin}), size |-> PageMin + 2,
       seen |-> RankIds(2, PageMin - 1)],
      [listing |-> Listing({}, {}), size |-> max_pages * PageMin + 1,
       seen |-> RankIds(1, max_pages * PageMin)] }

InitFeed ==
    \E f \in ListedFeeds :
        InitWith(ListedEnv(f.listing, f.size, {"latest.json"}, {"20240101"}),
                 { File("ids", f.seen) })

StartFeed == pc[1] = "idle" /\ \E c \in Configs : StartRun(1, TRUE, c)

\* An entry is published between two page fetches of the run: it takes the
\* head of the feed and every other entry moves one offset down.
FeedShift ==
    /\ pc[1] = "fetch"
    /\ env.listing.fixed
    /\ env.listing.shift < MaxShift
    /\ env' = [env EXCEPT !.listing.shift = @ + 1, !.feed_size = @ + 1]
    /\ UNCHANGED <<state_file, flag_files, mailbox, SENT_EMAIL, pc, cfg,
                   at_start, wrote, pagVars, downVars, error>>

NextFeed == StartFeed \/ FeedShift \/ Paginate(1)

SpecFeed == InitFeed /\ [][NextFeed]_vars

(* ------------------- enrichment, summaries, rendering ----------------- *)

\* Lines 278-290: augment_item_links for item i+1; an exception is caught
\* at line 289 and the loop goes on.
ScrapeItem(p) ==
    /\ pc[p] = "scrape"
    /\ i[p] < Len(items[p])
    /\ i' = Set(i, p, i[p] + 1)
    /\ UNCHANGED <<shared, SENT_EMAIL, pc, cfg, at_start, wrote, pagVars, items,
                   json_path, site_generated, stamp, email_outcome,
                   email_sent, error>>

\* The loop of line 278 ends.
ScrapeEnd(p) ==
    /\ pc[p] = "scrape"
    /\ i[p] = Len(items[p])
    /\ i' = Set(i, p, 0)
    /\ pc' = Set(pc, p, "summarize")
    /\ UNCHANGED <<shared, SENT_EMAIL, cfg, at_start, wrote, pagVars, items,
                   json_path, site_generated, stamp, email_outcome,
                   email_sent, error>>

\* Lines 293-304: build_two_stage_summary returns for every item.
Summarize(p) ==
    /\ pc[p] = "summarize"
    /\ pc' = Set(pc, p, "translate")
    /\ UNCHANGED <<shared, SENT_EMAIL, cfg, at_start, wrote, pagVars, downVars, error>>

\* Lines 296-298: build_two_stage_summary raises for some item; nothing
\* catches it before line 505.
SummarizeFails(p) ==
    /\ pc[p] = "summarize"
    /\ items[p] # <<>>
    /\ Abort(p, "summarize")
    /\ UNCHANGED <<shared, SENT_EMAIL, cfg, at_start, wrote, pagVars, downVars>>

\* Lines 315-326: call_llm_translate for item i+1; an exception is caught
\* at line 325 and the loop goes on.
TranslateItem(p) ==
    /\ pc[p] = "translate"
    /\ i[p] < Len(items[p])
    /\ i' = Set(i, p, i[p] + 1)
    /\ UNCHANGED <<shared, SENT_EMAIL, pc, cfg, at_start, wrote, pagVars, items,
                   json_path, site_generated, stamp, email_outcome,
                   email_sent, error>>

\* Lines 308-314: translation is off or has no key (i = 0), or its loop ends.
TranslateEnd(p) ==
    /\ pc[p] = "translate"
    /\ i[p] \in {0, Len(items[p])}
    /\ i' = Set(i, p, 0)
    /\ pc' = Set(pc, p, "save")
    /\ UNCHANGED <<shared, SENT_EMAIL, cfg, at_start, wrote, pagVars, items,
                   json_path, site_generated, stamp, email_outcome,
                   email_sent, error>>

\* Lines 350-353: save_json and save_markdown return; the artifact is named.
SaveOutputs(p) ==
    /\ pc[p] = "save"
    /\ \E n \in env.names : json_path' = Set(json_path, p, n)
    /\ pc' = Set(pc, p, "site")
    /\ UNCHANGED <<shared, SENT_EMAIL, cfg, at_start, wrote, pagVars, items, i,
                   site_generated, stamp, email_outcome, email_sent, error>>

\* Lines 350-351: save_json or save_markdown raises; nothing catches it
\* before line 505.
SaveFails(p) ==
    /\ pc[p] = "save"
    /\ Abort(p, "save")
    /\ UNCHANGED <<shared, SENT_EMAIL, cfg, at_start, wrote, pagVars, downVars>>

\* Lines 356-381: site_generated is set only when the site is configured
\* (`on`) and generate_site returned (`ok`); its exception is caught.
GenerateSite(p) ==
    /\ pc[p] = "site"
    /\ \E on \in BOOLEAN, ok \in BOOLEAN :
        site_generated' = Set(site_generated, p, on /\ ok)
    /\ pc' = Set(pc, p, "pdf")
    /\ UNCHANGED <<shared, SENT_EMAIL, cfg, at_start, wrote, pagVars, items, i,
                   json_path, stamp, email_outcome, email_sent, error>>

\* Lines 383-389: md_to_pdf, if asked for; its exception is caught.
ExportPdf(p) ==
    /\ pc[p] = "pdf"
    /\ pc' = Set(pc, p, "email")
    /\ UNCHANGED <<shared, SENT_EMAIL, cfg, at_start, wrote, pagVars, downVars, error>>

(* ---------------------------- Delivery Guard -------------------------- *)

\* Lines 393-449 without the snapshot guard of line 413.
EmailDecisionNoFileGuard(enabled, sent_flag, flag_exists, complete) ==
    IF ~enabled THEN "disabled"
    ELSE IF sent_flag THEN "process_guard"
    ELSE IF ~complete THEN "incomplete"
    ELSE "send"

\* Lines 393-449 without the process guard of line 397.
EmailDecisionNoProcessGuard(enabled, sent_flag, flag_exists, complete) ==
    IF ~enabled THEN "disabled"
    ELSE IF flag_exists THEN "file_guard"
    ELSE IF ~complete THEN "incomplete"
    ELSE "send"

\* Lines 393-449: what step 7 does, from the merged email switch, the
\* process flag, the presence of the snapshot flag and the completeness of
\* recipients, sender and password.
EmailDecision(enabled, sent_flag, flag_exists, complete) ==
    IF ~enabled THEN "disabled"
    ELSE IF sent_flag THEN "process_guard"
    ELSE IF flag_exists THEN "file_guard"
    ELSE IF ~complete THEN "incomplete"
    ELSE "send"

\* Lines 392-449: the guards of step 7, up to the call of send_email.
EmailCheck(p) ==
    /\ pc[p] = "email"
    /\ \E enabled \in BOOLEAN, complete \in BOOLEAN, today \in env.days :
        LET st  == ExtractStamp(json_path[p], today)
            out == EmailDecision(enabled, SENT_EMAIL[p], st \in flag_files,
                                 complete)
        IN  /\ stamp' = Set(stamp, p, IF enabled THEN st ELSE "")
            /\ email_outcome' = Set(email_outcome, p, out)
            /\ pc' = Set(pc, p, IF out = "send" THEN "send" ELSE "commit")
    /\ UNCHANGED <<shared, SENT_EMAIL, cfg, at_start, wrote, pagVars, items, i,
                   json_path, site_generated, email_sent, error>>

\* Lines 469-480: send_email returned; both flags are set.
SendEmail(p) ==
    /\ pc[p] = "send"
    /\ mailbox' = [mailbox EXCEPT ![stamp[p]] = @ + 1]
    /\ SENT_EMAIL' = Set(SENT_EMAIL, p, TRUE)
    /\ email_sent' = Set(email_sent, p, TRUE)
    /\ flag_files' = flag_files \cup {stamp[p]}
    /\ email_outcome' = Set(email_outcome, p, "sent")
    /\ pc' = Set(pc, p, "commit")
    /\ UNCHANGED <<env, state_file, cfg, at_start, wrote,
                   pagVars, items, i, json_path, site_generated, stamp, error>>

\* Lines 451-473 raise, and the flag file is created all the same.
SendFailsFlagged(p) ==
    /\ pc[p] = "send"
    /\ email_outcome' = Set(email_outcome, p, "failed")
    /\ flag_files' = flag_files \cup {stamp[p]}
    /\ pc' = Set(pc, p, "commit")
    /\ UNCHANGED <<env, state_file, mailbox, SENT_EMAIL, cfg, at_start, wrote,
                   pagVars, items, i, json_path, site_generated, stamp,
                   email_sent, error>>

\* Lines 451-473 raise (rendering the body, or send_email); caught at 481.
SendFails(p) ==
    /\ pc[p] = "send"
    /\ email_outcome' = Set(email_outcome, p, "failed")
    /\ pc' = Set(pc, p, "commit")
    /\ UNCHANGED <<shared, SENT_EMAIL, cfg, at_start, wrote, pagVars, items, i,
                   json_path, site_generated, stamp, email_sent, error>>

(* ------------------------ Outcome-Gated Committer --------------------- *)

\* Line 486 without the outcome gate.
ShouldCommitUngated(unique_only, its, site_gen, sent) ==
    unique_only /\ state_path # "" /\ its # <<>>

\* Line 486
ShouldCommit(unique_only, its, site_gen, sent) ==
    unique_only /\ state_path # "" /\ its # <<>> /\ (site_gen \/ sent)

\* Lines 487-491 starting from an empty set.
AllSeenOnlyNew(seen, its) == IdsOf(its)

\* Lines 487-491
AllSeen(seen, its) == seen \cup IdsOf(its)

\* Lines 486-496 reading the file again and merging it into the write.
CommitStateMerged(p) ==
    /\ pc[p] = "commit"
    /\ ShouldCommit(cfg[p].unique_only, items[p], site_generated[p],
                    email_sent[p])
    /\ state_file' = File("ids", state_file.ids \cup AllSeen(seen_ids[p], items[p]))
    /\ wrote' = Set(wrote, p, TRUE)
    /\ pc' = Set(pc, p, "done")
    /\ UNCHANGED <<env, flag_files, mailbox, SENT_EMAIL, cfg,
                   at_start, pagVars, downVars, error>>

\* Lines 486-496: the state file is rewritten as {"ids": sorted(all_seen)}.
CommitState(p) ==
    /\ pc[p] = "commit"
    /\ ShouldCommit(cfg[p].unique_only, items[p], site_generated[p],
                    email_sent[p])
    /\ state_file' = File("ids", AllSeen(seen_ids[p], items[p]))
    /\ wrote' = Set(wrote, p, TRUE)
    /\ pc' = Set(pc, p, "done")
    /\ UNCHANGED <<env, flag_files, mailbox, SENT_EMAIL, cfg,
                   at_start, pagVars, downVars, error>>

\* Lines 497-503: nothing is written.
SkipCommit(p) ==
    /\ pc[p] = "commit"
    /\ ~ShouldCommit(cfg[p].unique_only, items[p], site_generated[p],
                     email_sent[p])
    /\ pc' = Set(pc, p, "done")
    /\ UNCHANGED <<shared, SENT_EMAIL, cfg, at_start, wrote, pagVars, downVars, error>>

Publish(p) ==
    \/ ScrapeItem(p)
    \/ ScrapeEnd(p)
    \/ Summarize(p)
    \/ SummarizeFails(p)
    \/ TranslateItem(p)
    \/ TranslateEnd(p)
    \/ SaveOutputs(p)
    \/ SaveFails(p)
    \/ GenerateSite(p)
    \/ ExportPdf(p)
    \/ EmailCheck(p)
    \/ SendEmail(p)
    \/ SendFails(p)
    \/ CommitState(p)
    \/ SkipCommit(p)

(* Invocations of run(), one after the other. *)
Start ==
    \E fresh \in BOOLEAN, c \in Configs :
        /\ c.since_days = 0
        /\ c.max_results = MaxWant
        /\ StartRun(1, fresh, c)

Next == Start \/ Paginate(1) \/ Publish(1)

Spec == Init /\ [][Next]_vars

(* Two invocations of run(), each in its own process, at the same time on
   one state path and one output directory; their steps interleave. *)
InitConc ==
    InitWith(Env(SmallCatalog, SmallFeed, {"arxiv_20240101_000000.json"},
                 {"20240101"}),
             { File("absent", {}) })

StartConc(p) ==
    /\ pc[p] = "idle"
    /\ \E c \in Configs :
        /\ c.unique_only
        /\ c.since_days = 0
        /\ c.max_results = 1
        /\ StartRun(p, TRUE, c)

NextConc == \E p \in Procs : StartConc(p) \/ Paginate(p) \/ Publish(p)

SpecConc == InitConc /\ [][NextConc]_vars

(* ============================== claims =============================== *)

\* Where `collected` is what the Windowed Paginator has produced so far.
PagStages == {"fetch", "scan", "fallback"}

\* The condition the claims give for a commit.
Gate(p) ==
    cfg[p].unique_only /\ items[p] # <<>> /\ (site_generated[p] \/ email_sent[p])

\* C1. Commit gating: a run writes the state file only if uniqueOnly is
\* enabled, its item set is non-empty and the site was generated or the
\* notification was sent in this run; in every other run the state file
\* after the run is the state file before the run.
C1_CommitGating ==
    \A p \in Procs :
        /\ wrote[p] => Gate(p)
        /\ ~wrote[p] /\ pc[p] # "idle" => state_file = at_start[p].state_file
        /\ pc[p] \in {"done", "failed"} /\ ~Gate(p) =>
                ~wrote[p] /\ state_file = at_start[p].state_file

\* C1 witness: a finished run that fetched items with uniqueOnly enabled,
\* whose site was not generated and whose send failed; nothing was written.
C1_Witness ==
    /\ pc[1] = "done"
    /\ cfg[1].unique_only
    /\ items[1] # <<>>
    /\ ~site_generated[1]
    /\ email_outcome[1] = "failed"
    /\ ~(IdsOf(items[1]) \subseteq state_file.ids)
    /\ state_file = at_start[1].state_file

C4_DedupInvariant ==
    \A p \in Procs :
        /\ pc[p] \in PagStages /\ cfg[p].unique_only =>
                \A k \in 1..Len(collected[p]) : collected[p][k].id \notin seen_ids[p]
        /\ pc[p] = "scan" => Len(collected[p]) < Want(p)

\* C4 witness: with a non-empty SeenSet, the scan is past more items than
\* wantNew and goes on, one accepted item short of the quota.
C4_Witness ==
    /\ pc[1] = "scan"
    /\ cfg[1].unique_only
    /\ seen_ids[1] # {}
    /\ idx[1] > Want(1)
    /\ Len(collected[1]) = Want(1) - 1
    /\ Len(collected[1]) >= 1

\* C5. Cutoff exclusion: when a cutoff is configured no item whose
\* effective timestamp is strictly before the cutoff is in the paginator's
\* sequence.
C5_CutoffExclusion ==
    \A p \in Procs :
        pc[p] \in PagStages /\ cutoff[p] # None =>
            \A k \in 1..Len(collected[p]) :
                LET t == EffTime(collected[p][k])
                IN  ~(t # None /\ t < cutoff[p])

\* C5 witness: the loop ended on a stale item after it had accepted an item
\* dated exactly at the cutoff.
C5_Witness ==
    /\ pc[1] = "fallback"
    /\ cutoff[1] # None
    /\ reached_cutoff[1]
    /\ \E k \in 1..Len(collected[1]) : EffTime(collected[1][k]) = cutoff[1]

\* C6. Quota bound: the paginator's sequence never holds more than wantNew
\* items, at any point of the loop and at its end.
C6_QuotaBound ==
    \A p \in Procs :
        pc[p] \in PagStages => Len(collected[p]) <= Want(p)

\* C6 witness: the loop ended with the quota of two or more items filled.
C6_Witness ==
    /\ pc[1] = "fallback"
    /\ Want(1) >= 2
    /\ Len(collected[1]) = Want(1)

\* C7. Monotonic SeenSet: the identifiers stored in the state file after a
\* completed run include those stored before it, whatever the shape of the
\* stored document and whether or not it could be read at run start.
C7_MonotonicSeen ==
    \A p \in Procs :
        pc[p] = "done" => at_start[p].state_file.ids \subseteq state_file.ids

\* The fallback requests among the calls p has made.
FallbackCalls(p) == { k \in 1..Len(requests[p]) : requests[p][k].line = 253 }

\* The fallback request is single, last, start=0/max=wantNew, gated by
\* fallback_when_empty, and decides the item set.
C8_State ==
    \A p \in Procs :
        /\ Cardinality(FallbackCalls(p)) <= 1
        /\ \A k \in FallbackCalls(p) :
                /\ requests[p][k].start = 0
                /\ requests[p][k].max_results = Want(p)
                /\ k = Len(requests[p])
        /\ FallbackCalls(p) # {} => cfg[p].fallback_when_empty
        /\ pc[p] = "failed" /\ FallbackCalls(p) # {} => collected[p] = <<>>
        /\ pc[p] = "scrape" =>
                IF FallbackCalls(p) # {}
                THEN items[p] = fallback_page[p]
                ELSE /\ items[p] = collected[p]
                     /\ collected[p] # <<>> \/ ~cfg[p].fallback_when_empty

\* The step that issues the fallback request starts from the end of the
\* loop with nothing collected.
C8_Step ==
    \A p \in Procs :
        FallbackCalls(p) = {} /\ FallbackCalls(p)' # {} =>
            /\ pc[p] = "fallback"
            /\ collected[p] = <<>>
            /\ cfg[p].fallback_when_empty
            /\ Len(requests'[p]) = Len(requests[p]) + 1

\* C8. Fallback behaviour: the fallback fetch is issued only from the end
\* of the loop, with an empty paginator result and fallback_when_empty
\* enabled; it is one fetch with start=0 and max=wantNew, the last call of
\* the run; the item set is then what it parsed to, in order and
\* unfiltered; otherwise the item set is the paginator's result.
C8_Fallback == []C8_State /\ [][C8_Step]_vars

\* C8 witness: the item set of a fallback holds an item the SeenSet filter
\* would have skipped and one the cutoff would have stopped at.
C8_Witness ==
    /\ pc[1] = "scrape"
    /\ FallbackCalls(1) # {}
    /\ cfg[1].unique_only
    /\ \E k \in 1..Len(items[1]) : items[1][k].id \in seen_ids[1]
    /\ \E k \in 1..Len(items[1]) : Stale(cutoff[1], EffTime(items[1][k]))

\* C9. Feed failure is fatal and leaves no trace: after a fetch or parse
\* raised, the run has ended with exit status 1, no call was repeated, no
\* notification was sent, no flag created, and the process flag and the
\* state file are as they were when the run started.
C9_FeedFailureFatal ==
    \A p \in Procs :
        error[p] = "feed" =>
            /\ pc[p] = "failed"
            /\ ExitStatus(p) = 1
            /\ \A j, k \in 1..Len(requests[p]) : j < k => requests[p][j] # requests[p][k]
            /\ mailbox = at_start[p].mailbox
            /\ flag_files = at_start[p].flag_files
            /\ SENT_EMAIL[p] = at_start[p].SENT_EMAIL
            /\ state_file = at_start[p].state_file
            /\ ~wrote[p] /\ ~email_sent[p] /\ email_outcome[p] = ""

\* C9 witness: the fallback fetch raised in a process that had sent a
\* notification in an earlier invocation.
C9_Witness ==
    /\ pc[1] = "failed"
    /\ error[1] = "feed"
    /\ Len(requests[1]) = 2
    /\ at_start[1].SENT_EMAIL
    /\ at_start[1].flag_files # {}

\* C10. Only feed-layer failures abort the run: a failure of a downstream
\* collaborator is caught at its call site and the run goes on to the
\* commit step and exit status 0.
C10_OnlyFeedFailuresAbort ==
    \A p \in Procs :
        ExitStatus(p) = 1 => error[p] = "feed"

\* The guards let the run through to send_email only with the process flag
\* false and no flag file for the stamp; a run stopped by a guard goes on to
\* the commit step without error, with email_sent false and having created
\* no flag file and sent nothing.
C11_State ==
    \A p \in Procs :
        /\ pc[p] = "send" => ~SENT_EMAIL[p] /\ stamp[p] \notin flag_files
        /\ email_outcome[p] \in {"sent", "failed"} => ~at_start[p].SENT_EMAIL
        /\ email_outcome[p] = "process_guard" => at_start[p].SENT_EMAIL /\ SENT_EMAIL[p]
        /\ email_outcome[p] = "file_guard" => stamp[p] \in at_start[p].flag_files
        /\ email_outcome[p] \in {"process_guard", "file_guard"} =>
                /\ pc[p] \in {"commit", "done"}
                /\ ExitStatus(p) # 1 /\ error[p] = ""
                /\ ~email_sent[p]
                /\ flag_files = at_start[p].flag_files
                /\ mailbox = at_start[p].mailbox
                /\ SENT_EMAIL[p] = at_start[p].SENT_EMAIL

\* A step into send_email starts with both guards open, and the process
\* flag goes from true to false only where a new process starts.
C11_Step ==
    \A p \in Procs :
        /\ pc[p] # "send" /\ pc'[p] = "send" =>
                ~SENT_EMAIL[p] /\ stamp'[p] \notin flag_files
        /\ SENT_EMAIL[p] /\ ~SENT_EMAIL'[p] =>
                pc[p] \in {"done", "failed"} /\ pc'[p] = "load"

\* C11. Delivery guard: a send is attempted only if at check time the
\* process-level flag is false and the flag file of the run's stamp does not
\* exist; a tripped guard skips the notification without error, email_sent
\* stays false, no flag file is created, the run goes on to the commit step
\* and exit status 0; the process-level flag is never reset in a process.
C11_DeliveryGuard == []C11_State /\ [][C11_Step]_vars

\* C11 witness: a second invocation in the same process, for a stamp that
\* has no flag file, finished after the process guard skipped the send.
C11_Witness ==
    /\ pc[1] = "done"
    /\ email_outcome[1] = "process_guard"
    /\ stamp[1] \notin flag_files
    /\ ExitStatus(1) = 0

\* C12. Snapshot identifier derivation: the stamp of a run is the timestamp
\* token of the name of its output artifact and, when the name holds no
\* such token, the base file name of the artifact without its extension.
C12_StampDerivation ==
    \A p \in Procs :
        stamp[p] # "" =>
            stamp[p] = IF StampToken(json_path[p]) # ""
                       THEN StampToken(json_path[p])
                       ELSE FallbackStamp(json_path[p])

\* What the load of seen_ids leaves, by the document found at run start.
C13_State ==
    \A p \in Procs :
        pc[p] \notin {"idle", "load"} =>
            LET f == at_start[p].state_file
            IN  /\ error[p] \in {"", "feed", "summarize", "save"}
                /\ ~cfg[p].unique_only => seen_ids[p] = {} /\ ~load_error[p]
                /\ f.shape \in {"absent", "corrupt", "scalar"} => seen_ids[p] = {}
                /\ load_error[p] => seen_ids[p] = {}
                /\ ( /\ cfg[p].unique_only
                      /\ f.shape \in {"ids", "list", "dict"}
                      /\ ~load_error[p] ) => seen_ids[p] = f.ids

\* The load always hands over to the pagination loop.
C13_Step ==
    \A p \in Procs :
        pc[p] = "load" /\ pc'[p] # "load" => pc'[p] = "fetch" /\ error'[p] = ""

\* C13. SeenSet loading is never a hard failure: with the state file
\* absent, unreadable, not JSON or of an unrecognised shape the run goes on
\* with an empty SeenSet; a document with an "ids" field, a bare list or a
\* mapping keyed by identifier loads as exactly its identifiers; with
\* uniqueOnly disabled the file is not read.
C13_SeenLoading == []C13_State /\ [][C13_Step]_vars

\* C13 witness: a run has loaded two identifiers from a mapping keyed by
\* identifier and finished.
C13_Witness ==
    /\ pc[1] = "done"
    /\ cfg[1].unique_only
    /\ at_start[1].state_file.shape = "dict"
    /\ seen_ids[1] = {"a1", "a2"}

\* The page requests among the calls p has made.
PageCalls(p) == { k \in 1..Len(requests[p]) : requests[p][k].line = 218 }

\* At most max_pages page requests; the loop is inside a page or about to
\* fetch one only while no stop condition holds; a scan is bounded by the
\* page size.
C14_State ==
    \A p \in Procs :
        /\ Cardinality(PageCalls(p)) <= max_pages
        /\ pc[p] \in {"fetch", "scan"} =>
                /\ Len(collected[p]) < Want(p)
                /\ ~reached_cutoff[p]
                /\ page_no[p] < max_pages
                /\ idx[p] <= PSize(p)
        /\ pc[p] = "fetch" => Cardinality(PageCalls(p)) = page_no[p]
        /\ pc[p] = "scan" => Cardinality(PageCalls(p)) = page_no[p] + 1

\* A page is requested only with no stop condition met; an empty page ends
\* the loop with that fetch; the next page is fetched only after a full
\* page that met no stop condition; a loop that ended fetches no page.
C14_Step ==
    \A p \in Procs :
        /\ PageCalls(p)' # PageCalls(p) /\ pc[p] # "idle" /\ pc'[p] # "load" =>
                /\ pc[p] = "fetch"
                /\ Len(collected[p]) < Want(p) /\ ~reached_cutoff[p]
                /\ Cardinality(PageCalls(p)') = Cardinality(PageCalls(p)) + 1
        /\ pc[p] = "fetch" /\ pc'[p] = "fallback" =>
                Cardinality(PageCalls(p)') = page_no[p] + 1
        /\ pc[p] = "scan" /\ pc'[p] = "fetch" =>
                /\ idx[p] = PSize(p)
                /\ Len(collected'[p]) < Want(p) /\ ~reached_cutoff'[p]
        /\ pc[p] = "scan" /\ pc'[p] = "fallback" =>
                \/ QuotaReached(collected'[p], Want(p))
                \/ reached_cutoff'[p]
                \/ idx[p] < PSize(p)
                \/ page_no[p] + 1 = max_pages
        /\ pc[p] = "fallback" => pc'[p] \notin {"fetch", "scan"}

\* C14. Bounded, earliest-possible pagination halt: the loop makes at most
\* max_pages (20) fetches, and fetches no further page once the accumulator
\* reached wantNew, a stale item was met, a page came short of pageSize or
\* a page was empty.
C14_BoundedPagination == []C14_State /\ [][C14_Step]_vars

\* C14 witness: the loop ended by exhausting its twenty pages.
C14_Witness ==
    /\ pc[1] = "fallback"
    /\ page_no[1] = max_pages
    /\ Cardinality(PageCalls(1)) = max_pages

\* A flag file stands for a delivered notification; a run whose send raised
\* or was skipped for incomplete credentials has changed no flag and left
\* the guards of its stamp open; a run that sent has set all three.
C15_State ==
    /\ \A s \in Stamps : s \in flag_files => mailbox[s] >= 1
    /\ \A p \in Procs :
        /\ email_outcome[p] \in {"failed", "incomplete"} =>
                /\ ~email_sent[p]
                /\ SENT_EMAIL[p] = at_start[p].SENT_EMAIL /\ ~SENT_EMAIL[p]
                /\ flag_files = at_start[p].flag_files
                /\ stamp[p] \notin flag_files
                /\ mailbox = at_start[p].mailbox
        /\ email_outcome[p] = "sent" =>
                /\ email_sent[p] /\ SENT_EMAIL[p]
                /\ stamp[p] \in flag_files
                /\ mailbox[stamp[p]] = at_start[p].mailbox[stamp[p]] + 1

\* The flag files change only by the step in which send_email returns, which
\* adds the flag of the run's stamp and sets both flags.
C15_Step ==
    flag_files' # flag_files =>
        \E p \in Procs :
            /\ pc[p] = "send"
            /\ flag_files' = flag_files \cup {stamp[p]}
            /\ mailbox' = [mailbox EXCEPT ![stamp[p]] = @ + 1]
            /\ SENT_EMAIL'[p] /\ email_sent'[p]

\* C15. Flag follows confirmed send: the flag file of a stamp is created
\* only after send_email returned for that stamp in the same run, and then
\* the process flag and email_sent are true; a send that raised or was
\* skipped for missing credentials creates no flag, leaves the process flag
\* unchanged and email_sent false, and bars no later send for the stamp.
C15_FlagFollowsSend == []C15_State /\ [][C15_Step]_vars

\* C15 witness: a run whose send raised has finished, after an earlier run
\* had sent for another stamp.
C15_Witness ==
    /\ pc[1] = "done"
    /\ email_outcome[1] = "failed"
    /\ flag_files # {}
    /\ stamp[1] \notin flag_files

\* The item carries a timestamp that lies before the cutoff of p.
Predates(p, it) ==
    cutoff[p] # None /\ EffTime(it) # None /\ EffTime(it) < cutoff[p]

\* With reached_cutoff set the loop is over and a cutoff is configured.
C16_State ==
    \A p \in Procs :
        reached_cutoff[p] => cutoff[p] # None /\ pc[p] \notin {"fetch", "scan"}

\* The scan of an item that predates the cutoff sets reached_cutoff, ends
\* the loop and adds nothing; reached_cutoff is set by such a step only;
\* after it no page is fetched, and without fallback the result is the
\* accumulator as it stood.
C16_Step ==
    \A p \in Procs :
        /\ \A it \in env.catalog :
                pc[p] = "scan" /\ Predates(p, it) /\ ScanStep(p, it) =>
                    /\ reached_cutoff'[p]
                    /\ collected'[p] = collected[p]
                    /\ pc'[p] = "fallback"
                    /\ requests'[p] = requests[p]
        /\ ~reached_cutoff[p] /\ reached_cutoff'[p] =>
                /\ pc[p] = "scan"
                /\ \E it \in env.catalog : Predates(p, it) /\ ScanStep(p, it)
        /\ reached_cutoff[p] /\ reached_cutoff'[p] =>
                /\ PageCalls(p)' = PageCalls(p)
                /\ FallbackCalls(p)' = {} =>
                        collected'[p] = collected[p] /\ items'[p] = collected[p]

\* C16. Cutoff early exit: at the first item whose effective timestamp
\* predates the cutoff reached_cutoff becomes true, no later item of the
\* page is scanned or collected, no later page is fetched, and the result
\* is the items accepted before that item.
C16_CutoffEarlyExit == []C16_State /\ [][C16_Step]_vars

\* C16 witness: two fresh items were accepted, the third item of the page
\* was stale, and the loop ended with reached_cutoff set, one short of a
\* quota of three.
C16_Witness ==
    /\ pc[1] = "fallback"
    /\ reached_cutoff[1]
    /\ Want(1) = 3
    /\ collected[1] = <<Item("a1", "d2", ""), Item("a2", "d2", "")>>

\* Neither timestamp field of the item holds a parsable instant.
NoTime(it) ==
    it.updated \in {"", "garbage"} /\ it.published \in {"", "garbage"}

\* An item without parsable timestamp has no effective time and is stale
\* for no cutoff.
C17_State ==
    \A p \in Procs : \A it \in env.catalog :
        NoTime(it) => EffTime(it) = None /\ ~Stale(cutoff[p], EffTime(it))

\* The scan of such an item leaves reached_cutoff alone and appends the
\* item, unless the dedup filter skips it.
C17_Step ==
    \A p \in Procs : \A it \in env.catalog :
        pc[p] = "scan" /\ NoTime(it) /\ ScanStep(p, it) =>
            /\ reached_cutoff'[p] = reached_cutoff[p]
            /\ IF cfg[p].unique_only /\ it.id # "" /\ it.id \in seen_ids[p]
               THEN collected'[p] = collected[p]
               ELSE collected'[p] = Append(collected[p], it)

\* C17. Unknown timestamps never trigger the cutoff: an item whose
\* timestamp is malformed or unparsable never sets reached_cutoff and is
\* never excluded by the cutoff; it is kept unless dedup removes it.
C17_UnknownTimestamps == []C17_State /\ [][C17_Step]_vars

\* C17 witness: with a cutoff set, the loop ended without reaching the
\* cutoff and its result holds an item with a malformed timestamp.
C17_Witness ==
    /\ pc[1] = "fallback"
    /\ cutoff[1] # None
    /\ ~reached_cutoff[1]
    /\ \E k \in 1..Len(collected[1]) :
            collected[1][k].updated = "garbage" /\ NoTime(collected[1][k])

\* The page size of every quota up to MaxGeoWant (0 stands for the default).
C18_Sizes ==
    \A w \in 0..MaxGeoWant :
        LET want == WantNew(w)
            size == PageSize(want)
        IN  /\ size \in 25..200
            /\ want <= 25 => size = 25
            /\ want \in 25..200 => size = want
            /\ want >= 200 => size = 200

\* C18. Page geometry: pageSize = min(200, max(25, wantNew)) lies in
\* 25..200; every fetch of the paginator asks for pageSize items; the k-th
\* fetch (k = 0, 1, ...) has start = k * pageSize, which never exceeds
\* (maxPages - 1) * pageSize.
C18_PageGeometry ==
    /\ C18_Sizes
    /\ \A p \in Procs :
        /\ PSize(p) \in 25..200
        /\ \A k \in PageCalls(p) :
                /\ requests[p][k].max_results = PSize(p)
                /\ requests[p][k].start = (k - 1) * PSize(p)
                /\ requests[p][k].start <= (max_pages - 1) * PSize(p)
                /\ k > 1 => requests[p][k].start
                                = requests[p][k - 1].start + PSize(p)
        /\ pc[p] \in {"fetch", "scan"} => start[p] = page_no[p] * PSize(p)

\* C18 witness: the twentieth fetch of a run with page size 200 was made,
\* at start = 19 * 200.
C18_Witness ==
    /\ pc[1] = "scan"
    /\ PSize(1) = 200
    /\ Len(requests[1]) = max_pages
    /\ requests[1][max_pages].start = 3800

C20_Step ==
    \A p \in Procs :
        /\ ~wrote[p] /\ wrote'[p] =>
                state_file' = File("ids", seen_ids[p] \cup IdsOf(items[p]))
        /\ ~email_sent[p] /\ email_sent'[p] =>
                mailbox' = [mailbox EXCEPT ![stamp[p]] = @ + 1]

\* C20. Concurrent runs can race: the store and the snapshot flag are read,
\* then written, without locking: the commit overwrites the file with the
\* view of the writer, and a run that passed the snapshot guard sends; each
\* run sends at most once.
C20_ConcurrentRaces ==
    /\ [](\A s \in Stamps : mailbox[s] <= Cardinality(Procs))
    /\ [][C20_Step]_vars

\* C20 witness: two concurrent runs for one stamp have both passed the
\* snapshot guard and both sent, both have committed, and the store lacks
\* an identifier that the first of them committed.
C20_Witness ==
    /\ pc[1] = "done" /\ pc[2] = "done"
    /\ wrote[1] /\ wrote[2]
    /\ \E x \in IdsOf(items[1]) : x \notin state_file.ids
    /\ stamp[1] = stamp[2]
    /\ email_sent[1] /\ email_sent[2]
    /\ mailbox[stamp[1]] = 2

\* The ranks of the listed feed that the reference result of p's run draws
\* on: among the first max_pages * page_size entries, those before the
\* first entry whose effective timestamp is older than the cutoff (when a
\* cutoff is set), without those whose identifier is in seen_ids (when
\* unique_only is enabled).
RefRanks(p) ==
    LET first == 1..Min(env.feed_size, max_pages * PSize(p))
        old == { k \in first :
                    /\ cutoff[p] # None
                    /\ EffTime(Entry(env.listing, k)) # None
                    /\ EffTime(Entry(env.listing, k)) < cutoff[p] }
        window == { k \in first : \A j \in old : k < j }
    IN  { k \in window :
            ~(cfg[p].unique_only /\ Entry(env.listing, k).id \in seen_ids[p]) }

\* The reference result: the first want_new entries of those ranks, in feed
\* order.
RefResult(p) ==
    LET ranks == RefRanks(p)
    IN  [j \in 1..Min(Want(p), Cardinality(ranks)) |->
            Entry(env.listing,
                  CHOOSE k \in ranks :
                      Cardinality({ m \in ranks : m < k }) = j - 1)]

\* C21. Reference result of the paginator: when the feed content does not
\* change between the page fetches of a run, the accumulator the pagination
\* loop leaves equals, in feed order, the first wantNew items of: the first
\* maxPages * pageSize feed items, truncated just before the first item
\* older than the cutoff (if a cutoff is set), with the items whose
\* identifier is in the SeenSet removed (if uniqueOnly is enabled).
C21_ReferenceResult ==
    \A p \in Procs :
        pc[p] = "fallback" /\ env.listing.fixed /\ env.listing.shift = 0 =>
            collected[p] = RefResult(p)

\* The loop has ended on its second page at a stale entry, with one item
\* taken before and one after entries skipped as seen.
C21_Witness ==
    /\ pc[1] = "fallback"
    /\ env.listing.fixed /\ env.listing.shift = 0
    /\ page_no[1] = 1
    /\ reached_cutoff[1]
    /\ cfg[1].unique_only /\ seen_ids[1] # {}
    /\ Len(collected[1]) = 2
    /\ collected[1] = RefResult(1)

\* C22. No duplicate within one run: for every sequence of pages the feed
\* may return, pages that overlap because the feed shifted between two
\* fetches included, the accumulator the pagination loop leaves never holds
\* two items with the same identifier.
C22_NoDuplicateInRun ==
    \A p \in Procs :
        pc[p] = "fallback" /\ env.listing.fixed =>
            \A j, k \in 1..Len(collected[p]) :
                j # k => collected[p][j].id # collected[p][k].id

====
